---------------------------- MODULE Spec2Model ----------------------------
(***************************************************************************)
(* Iterative DNS resolver (mydig.py / resolver.py).                        *)
(*                                                                         *)
(* A walk is one activation of iterative_resolve.  The walks of one thread *)
(* form a call stack: extract_ns_ips calls iterative_resolve again for     *)
(* every NS name of an authority section.  main starts two threads, each   *)
(* running resolve_with_timing for one record type, and polls the shared   *)
(* result_holder dictionary.                                               *)
(*                                                                         *)
(* The two source files differ in send_query / resolve_once (a transport   *)
(* failure is raised in mydig.py and swallowed in resolver.py), in the     *)
(* except clause of resolve_with_timing and in main's polling loop; the    *)
(* variable `variant` says which file runs.                                *)
(***************************************************************************)
EXTENDS Integers, Sequences, FiniteSets, TLC

MAX_CNAME_CHAIN == 10

\* Deepest call stack of nested walks the interpreter allows; a call beyond it
\* raises RecursionError (an Exception, caught by extract_ns_ips).
MaxDepth == 2

\* ROOT_SERVERS, shortened to two addresses.
ROOT_SERVERS == <<"r1", "r2">>

Variants == {"mydig", "resolver"}
Threads == {1, 2}

\* main: for rdtype in [dns.rdatatype.A, dns.rdatatype.AAAA]
ThreadRdtype(t) == IF t = 1 THEN "A" ELSE "AAAA"

Domain == "d"
NoName == ""

---------------------------------------------------------------------------
\* Responses of the servers

RRset(rdtype, items) == [rdtype |-> rdtype, items |-> items]

Response(answer, authority, additional) ==
    [answer |-> answer, authority |-> authority, additional |-> additional]

NoResp == Response(<<>>, <<>>, <<>>)

\* answers
RAnsA       == Response(<<RRset("A", <<"a1">>)>>, <<>>, <<>>)
RAnsAAAA    == Response(<<RRset("AAAA", <<"a2">>)>>, <<>>, <<>>)
RTwoA       == Response(<<RRset("A", <<"a2">>), RRset("A", <<"a1">>)>>, <<>>, <<>>)
RTwoAAAA    == Response(<<RRset("AAAA", <<"a1">>), RRset("AAAA", <<"a2">>)>>, <<>>, <<>>)
\* alias redirections
RCname      == Response(<<RRset("CNAME", <<"c1">>)>>, <<>>, <<>>)
RCnameAns   == Response(<<RRset("CNAME", <<"c1">>), RRset("A", <<"a1">>)>>, <<>>, <<>>)
RAnsCname   == Response(<<RRset("AAAA", <<"a2">>), RRset("CNAME", <<"c1">>)>>, <<>>, <<>>)
RTwoCname   == Response(<<RRset("CNAME", <<"c1", "c2">>), RRset("CNAME", <<"c3", "c1">>)>>,
                        <<>>, <<>>)
\* referrals
RGlueNs     == Response(<<>>, <<RRset("NS", <<"n1", "n2">>)>>,
                        <<RRset("A", <<"g1", "g2">>), RRset("OPT", <<"x">>),
                          RRset("AAAA", <<"g3">>)>>)
RNs         == Response(<<>>, <<RRset("SOA", <<"x">>), RRset("NS", <<"n1">>)>>, <<>>)
RTwoNs      == Response(<<>>, <<RRset("NS", <<"n1">>), RRset("SOA", <<"x">>),
                                 RRset("NS", <<"n2">>)>>, <<>>)
\* a delegation of the queried name to itself, without glue
RSelfNs     == Response(<<>>, <<RRset("NS", <<"d">>)>>, <<>>)
\* nothing usable
RSoa        == Response(<<>>, <<RRset("SOA", <<"x">>)>>, <<RRset("OPT", <<"x">>)>>)

\* The servers of one run answer from one of these sets of responses.
\* Servers that answer or redirect to an alias:
AliasWorld ==
    {RAnsA, RAnsAAAA, RTwoA, RTwoAAAA, RCname, RCnameAns, RAnsCname, RTwoCname, NoResp}
\* Servers that answer or delegate, with or without glue:
ReferralWorld == {RAnsA, RAnsAAAA, RGlueNs, RNs, RSoa}

\* Servers that redirect to an alias or delegate with glue:
MixedWorld == {RAnsA, RCname, RGlueNs, RSoa}

Worlds == {AliasWorld, ReferralWorld, MixedWorld}

\* Servers that answer or delegate to two nameservers without glue:
NsWorld == {RAnsA, RAnsAAAA, RTwoNs}
\* Servers that redirect to an alias or delegate to a nameserver without glue:
AliasNsWorld == {RCname, RNs}

\* Servers that answer or name the queried name as its own nameserver:
SelfNsWorld == {RAnsA, RSelfNs}

NsWorlds == {NsWorld, AliasNsWorld, SelfNsWorld}

\* The servers of a race of two walks give a final answer or nothing usable.
RaceResponses == {RAnsA, RAnsAAAA, RSoa}

---------------------------------------------------------------------------
\* Errors (RuntimeError messages)

Err(kind, server) == [kind |-> kind, server |-> server]
NoErr == Err("none", "-")
\* "Query to <IP> failed: <details>"
TransportFailure(server) == Err("TransportFailure", server)
\* "No response from any server"
NoResponse == Err("NoResponse", "-")
\* "CNAME chain too long"
AliasChainTooLong == Err("AliasChainTooLong", "-")
\* "No usable answer or delegation found"
NoUsable == Err("NoUsableAnswerOrDelegation", "-")

---------------------------------------------------------------------------
VARIABLES
    variant,     \* which source file runs
    responses,   \* the responses the servers of this run may send
    stack,       \* stack[t]: the walks of thread t, outermost first
    tpc,         \* tpc[t]: position of thread t in resolve_with_timing
    answers,     \* answers[t]: local `answers` of resolve_with_timing
    start,       \* start[t]: local `start` of resolve_with_timing
    elapsed,     \* elapsed[t]: local `elapsed` of resolve_with_timing
    clock,       \* time.time(), advanced when a walk completes
    result,      \* the shared dictionary result_holder
    mpc,         \* position of main
    outcome      \* what main printed

vars == <<variant, responses, stack, tpc, answers, start, elapsed, clock, result, mpc, outcome>>

race == <<tpc, answers, start, elapsed, clock, result, mpc, outcome>>

\* iterative_resolve: the locals of a fresh activation
NewWalk(domain, rdtype) ==
    [qname           |-> domain,
     rdtype          |-> rdtype,
     current_servers |-> ROOT_SERVERS,
     cname_chain     |-> 0,
     pc              |-> "probe",
     idx             |-> 1,         \* resolve_once: position of `for server in servers`
     tried           |-> <<>>,      \* resolve_once: servers send_query was called with
     last_err        |-> NoErr,     \* resolve_once: last_err
     resp            |-> NoResp,
     pass            |-> "A",       \* rdtype argument of the running extract_ns_ips
     nsIdx           |-> 1,         \* extract_ns_ips: position in the NS names
     ips             |-> <<>>,      \* extract_ns_ips: ips
     ipsA            |-> <<>>,      \* value of extract_ns_ips(resp, A)
     ret             |-> <<>>,      \* returned list of record sets
     err             |-> NoErr]     \* raised error

Depth(t) == Len(stack[t])
Top(t) == stack[t][Len(stack[t])]
SetTop(t, f) == [stack EXCEPT ![t] = [@ EXCEPT ![Len(@)] = f]]

\* resolve_once(qname, rdtype, current_servers) is called again
Probe(f, qname, servers) ==
    [f EXCEPT !.qname = qname, !.current_servers = servers, !.pc = "probe",
              !.idx = 1, !.tried = <<>>, !.last_err = NoErr, !.resp = NoResp,
              !.pass = "A", !.nsIdx = 1, !.ips = <<>>, !.ipsA = <<>>]

Return(f, rrsets) == [f EXCEPT !.pc = "returned", !.ret = rrsets]
Raise(f, e) == [f EXCEPT !.pc = "raised", !.err = e]

---------------------------------------------------------------------------
\* Pure helpers

RECURSIVE GlueOf(_)
GlueOf(additional) ==
    IF additional = <<>> THEN <<>>
    ELSE LET rrset == Head(additional) IN
         (IF rrset.rdtype \in {"A", "AAAA"} THEN rrset.items ELSE <<>>)
             \o GlueOf(Tail(additional))

\* glue of the first record set of the additional section only
extract_glue_ips_first(response) ==
    IF response.additional = <<>> THEN <<>>
    ELSE GlueOf(<<Head(response.additional)>>)

extract_glue_ips(response) == GlueOf(response.additional)

RECURSIVE NsOf(_)
NsOf(authority) ==
    IF authority = <<>> THEN <<>>
    ELSE LET rrset == Head(authority) IN
         (IF rrset.rdtype = "NS" THEN rrset.items ELSE <<>>) \o NsOf(Tail(authority))

\* extract_ns_ips: the ns_name values its two loops visit, in order
NsNames(response) == NsOf(response.authority)

\* extract_ns_ips: the addresses of ns_ans[0] (records with an `address`)
Addresses(rrset) == IF rrset.rdtype \in {"A", "AAAA"} THEN rrset.items ELSE <<>>

\* a scan that keeps the target of the first CNAME record set
RECURSIVE ScanAnswerFirstCname(_, _, _)
ScanAnswerFirstCname(answer, rdtype, cname_target) ==
    IF answer = <<>>
    THEN [match |-> FALSE, rrset |-> RRset("-", <<>>), cname_target |-> cname_target]
    ELSE LET rrset == Head(answer) IN
         IF rrset.rdtype = rdtype
         THEN [match |-> TRUE, rrset |-> rrset, cname_target |-> cname_target]
         ELSE IF rrset.rdtype = "CNAME" /\ cname_target = NoName
              THEN ScanAnswerFirstCname(Tail(answer), rdtype, rrset.items[1])
              ELSE ScanAnswerFirstCname(Tail(answer), rdtype, cname_target)

\* a scan that keeps the last matching record set
RECURSIVE ScanAnswerLast(_, _, _)
ScanAnswerLast(answer, rdtype, cname_target) ==
    IF answer = <<>>
    THEN [match |-> FALSE, rrset |-> RRset("-", <<>>), cname_target |-> cname_target]
    ELSE LET rrset == Head(answer)
             rest == ScanAnswerLast(Tail(answer), rdtype, cname_target)
         IN  IF rest.match THEN rest
             ELSE IF rrset.rdtype = rdtype
             THEN [match |-> TRUE, rrset |-> rrset, cname_target |-> cname_target]
             ELSE IF rrset.rdtype = "CNAME" /\ rest.cname_target = cname_target
             THEN [rest EXCEPT !.cname_target = rrset.items[1]]
             ELSE rest

\* a scan that stops at the first CNAME record set
RECURSIVE ScanAnswerStopAtCname(_, _, _)
ScanAnswerStopAtCname(answer, rdtype, cname_target) ==
    IF answer = <<>>
    THEN [match |-> FALSE, rrset |-> RRset("-", <<>>), cname_target |-> cname_target]
    ELSE LET rrset == Head(answer) IN
         IF rrset.rdtype = rdtype
         THEN [match |-> TRUE, rrset |-> rrset, cname_target |-> cname_target]
         ELSE IF rrset.rdtype = "CNAME"
              THEN [match |-> FALSE, rrset |-> RRset("-", <<>>),
                    cname_target |-> rrset.items[1]]
              ELSE ScanAnswerStopAtCname(Tail(answer), rdtype, cname_target)

\* iterative_resolve: `for rrset in resp.answer`
RECURSIVE ScanAnswer(_, _, _)
ScanAnswer(answer, rdtype, cname_target) ==
    IF answer = <<>>
    THEN [match |-> FALSE, rrset |-> RRset("-", <<>>), cname_target |-> cname_target]
    ELSE LET rrset == Head(answer) IN
         IF rrset.rdtype = rdtype
         THEN [match |-> TRUE, rrset |-> rrset, cname_target |-> cname_target]
         ELSE IF rrset.rdtype = "CNAME"
              THEN ScanAnswer(Tail(answer), rdtype, rrset.items[1])
              ELSE ScanAnswer(Tail(answer), rdtype, cname_target)

\* the bound compared with >= instead of >
ChainTooLongEarly(cname_chain) == cname_chain >= MAX_CNAME_CHAIN

\* `if cname_chain > MAX_CNAME_CHAIN`
ChainTooLong(cname_chain) == cname_chain > MAX_CNAME_CHAIN

---------------------------------------------------------------------------
\* The walk

Walking(t) == tpc[t] = "walk" /\ stack[t] # <<>>

\* resolve_once: send_query(domain, rdtype, server) returned the response r
Answered(f, server, r) ==
    [f EXCEPT !.tried = Append(@, server), !.resp = r, !.pc = "classify"]

\* a failed server that is queried again
UnansweredRetry(v, f, server) ==
    [f EXCEPT !.tried = Append(@, server),
              !.last_err = IF v = "mydig" THEN TransportFailure(server) ELSE @]

\* resolve_once: send_query failed; mydig.py keeps the error, the loop goes on
Unanswered(v, f, server) ==
    [f EXCEPT !.tried = Append(@, server), !.idx = @ + 1,
              !.last_err = IF v = "mydig" THEN TransportFailure(server) ELSE @]

\* resolve_once: one iteration of `for server in servers`
SendQuery(t) ==
    /\ Walking(t)
    /\ Top(t).pc = "probe"
    /\ Top(t).idx <= Len(Top(t).current_servers)
    /\ LET f == Top(t)
           server == f.current_servers[f.idx]
       IN \/ \E r \in responses : stack' = SetTop(t, Answered(f, server, r))
          \/ stack' = SetTop(t, Unanswered(variant, f, server))
    /\ UNCHANGED <<variant, responses, race>>

\* what the walk raises when resolve_once found no server
ExhaustedError(f) == IF f.last_err # NoErr THEN f.last_err ELSE NoResponse

\* resolve_once: the loop is over; `raise last_err`, or `return None` and the
\* caller's `raise RuntimeError("No response from any server")`
ProbeExhausted(t) ==
    /\ Walking(t)
    /\ Top(t).pc = "probe"
    /\ Top(t).idx > Len(Top(t).current_servers)
    /\ stack' = SetTop(t, Raise(Top(t), ExhaustedError(Top(t))))
    /\ UNCHANGED <<variant, responses, race>>

\* a redirection that goes on from the servers of the old name
FollowAliasKeepServers(f, cname_target) ==
    LET g == [f EXCEPT !.cname_chain = @ + 1]
    IN  IF g.cname_chain > MAX_CNAME_CHAIN THEN Raise(g, AliasChainTooLong)
        ELSE Probe(g, cname_target, f.current_servers)

\* a redirection that leaves the counter alone
FollowAliasUncounted(f, cname_target) == Probe(f, cname_target, ROOT_SERVERS)

\* iterative_resolve: `if cname_target:` ... `continue`
FollowAlias(f, cname_target) ==
    LET g == [f EXCEPT !.cname_chain = @ + 1]
    IN  IF ChainTooLong(g.cname_chain) THEN Raise(g, AliasChainTooLong)
        ELSE Probe(g, cname_target, ROOT_SERVERS)

\* iterative_resolve: `if glue_ips:` ... `continue`
UseGlue(f, glue_ips) == Probe(f, f.qname, glue_ips)

\* iterative_resolve: the first call of extract_ns_ips starts
StartNs(f) ==
    [f EXCEPT !.pc = "ns", !.pass = "A", !.nsIdx = 1, !.ips = <<>>, !.ipsA = <<>>,
              !.idx = 1, !.tried = <<>>, !.last_err = NoErr]

\* iterative_resolve: the frame after the response `f.resp` is classified
Classified(f) ==
    LET scan == ScanAnswer(f.resp.answer, f.rdtype, NoName)
        glue_ips == extract_glue_ips(f.resp)
    IN  IF scan.match THEN Return(f, <<scan.rrset>>)
        ELSE IF scan.cname_target # NoName THEN FollowAlias(f, scan.cname_target)
        ELSE IF glue_ips # <<>> THEN UseGlue(f, glue_ips)
        ELSE StartNs(f)

Classify(t) ==
    /\ Walking(t)
    /\ Top(t).pc = "classify"
    /\ stack' = SetTop(t, Classified(Top(t)))
    /\ UNCHANGED <<variant, responses, race>>

\* extract_ns_ips called with the record type the walk was asked for
NsCallOwnType(t) ==
    /\ Walking(t)
    /\ Top(t).pc = "ns"
    /\ Top(t).nsIdx <= Len(NsNames(Top(t).resp))
    /\ LET f == Top(t)
           ns_name == NsNames(f.resp)[f.nsIdx]
       IN IF Depth(t) < MaxDepth
          THEN stack' = [stack EXCEPT ![t] = Append(@, NewWalk(ns_name, f.rdtype))]
          ELSE stack' = SetTop(t, [f EXCEPT !.nsIdx = @ + 1])
    /\ UNCHANGED <<variant, responses, race>>

\* extract_ns_ips with a cycle guard: a name already being resolved is skipped
NsCallGuarded(t) ==
    /\ Walking(t)
    /\ Top(t).pc = "ns"
    /\ Top(t).nsIdx <= Len(NsNames(Top(t).resp))
    /\ LET f == Top(t)
           ns_name == NsNames(f.resp)[f.nsIdx]
           cycle == \E d \in DOMAIN stack[t] : stack[t][d].qname = ns_name
       IN IF Depth(t) < MaxDepth /\ ~cycle
          THEN stack' = [stack EXCEPT ![t] = Append(@, NewWalk(ns_name, f.pass))]
          ELSE stack' = SetTop(t, [f EXCEPT !.nsIdx = @ + 1])
    /\ UNCHANGED <<variant, responses, race>>

\* extract_ns_ips: `ns_ans = iterative_resolve(ns_name, rdtype)`
NsCall(t) ==
    /\ Walking(t)
    /\ Top(t).pc = "ns"
    /\ Top(t).nsIdx <= Len(NsNames(Top(t).resp))
    /\ LET f == Top(t)
           ns_name == NsNames(f.resp)[f.nsIdx]
       IN IF Depth(t) < MaxDepth
          THEN stack' = [stack EXCEPT ![t] = Append(@, NewWalk(ns_name, f.pass))]
          ELSE stack' = SetTop(t, [f EXCEPT !.nsIdx = @ + 1])
    /\ UNCHANGED <<variant, responses, race>>

\* walks that share one alias-chain counter
CollectedSharedCounter(f, g) ==
    [f EXCEPT !.ips = @ \o (IF g.pc = "returned" THEN Addresses(g.ret[1]) ELSE <<>>),
              !.nsIdx = @ + 1,
              !.cname_chain = g.cname_chain]

\* a nested walk whose error reaches the caller
CollectedPropagate(f, g) ==
    IF g.pc = "raised" THEN Raise(f, g.err)
    ELSE [f EXCEPT !.ips = @ \o Addresses(g.ret[1]), !.nsIdx = @ + 1]

\* extract_ns_ips: the nested walk is over; collect its addresses or `continue`
Collected(f, g) ==
    [f EXCEPT !.ips = @ \o (IF g.pc = "returned" THEN Addresses(g.ret[1]) ELSE <<>>),
              !.nsIdx = @ + 1]

NsCollect(t) ==
    /\ Walking(t)
    /\ Depth(t) > 1
    /\ Top(t).pc \in {"returned", "raised"}
    /\ LET g == Top(t)
           below == SubSeq(stack[t], 1, Depth(t) - 1)
           f == below[Len(below)]
       IN stack' = [stack EXCEPT ![t] = [below EXCEPT ![Len(below)] = Collected(f, g)]]
    /\ UNCHANGED <<variant, responses, race>>

\* a walk that probes the resolved nameserver addresses without `if ns_ips:`
NsFinishedUnchecked(f) ==
    IF f.pass = "A"
    THEN [f EXCEPT !.ipsA = f.ips, !.ips = <<>>, !.pass = "AAAA", !.nsIdx = 1]
    ELSE Probe(f, f.qname, f.ipsA \o f.ips)

\* a walk that gives up when no nameserver has an A address
NsFinishedGivesUpEarly(f) ==
    IF f.pass = "A"
    THEN IF f.ips = <<>> THEN Raise(f, NoUsable)
         ELSE [f EXCEPT !.ipsA = f.ips, !.ips = <<>>, !.pass = "AAAA", !.nsIdx = 1]
    ELSE Probe(f, f.qname, f.ipsA \o f.ips)

\* iterative_resolve: extract_ns_ips returned
NsFinished(f) ==
    IF f.pass = "A"
    THEN [f EXCEPT !.ipsA = f.ips, !.ips = <<>>, !.pass = "AAAA", !.nsIdx = 1]
    ELSE LET ns_ips == f.ipsA \o f.ips
         IN IF ns_ips # <<>> THEN Probe(f, f.qname, ns_ips)
            ELSE Raise(f, NoUsable)

NsDone(t) ==
    /\ Walking(t)
    /\ Top(t).pc = "ns"
    /\ Top(t).nsIdx > Len(NsNames(Top(t).resp))
    /\ stack' = SetTop(t, NsFinished(Top(t)))
    /\ UNCHANGED <<variant, responses, race>>

WalkStep(t) ==
    \/ SendQuery(t)
    \/ ProbeExhausted(t)
    \/ Classify(t)
    \/ NsCall(t)
    \/ NsCollect(t)
    \/ NsDone(t)

---------------------------------------------------------------------------
\* resolve_with_timing

NoResult == [rdtype |-> "-", answers |-> <<>>, elapsed |-> 0]

WalkOver(t) == Walking(t) /\ Depth(t) = 1 /\ Top(t).pc \in {"returned", "raised"}

\* `answers = iterative_resolve(domain, rdtype)` returned; `elapsed = ...`
WalkReturned(t) ==
    /\ WalkOver(t)
    /\ Top(t).pc = "returned"
    /\ answers' = [answers EXCEPT ![t] = Top(t).ret]
    /\ clock' = clock + 1
    /\ elapsed' = [elapsed EXCEPT ![t] = clock' - start[t]]
    /\ tpc' = [tpc EXCEPT ![t] = IF Top(t).ret = <<>> THEN "dead" ELSE "check"]
    /\ stack' = [stack EXCEPT ![t] = <<>>]
    /\ UNCHANGED <<variant, responses, start, result, mpc, outcome>>

\* the dictionary after the except clause of resolve_with_timing
StoreError(v, holder, e) == IF v = "mydig" THEN [holder EXCEPT !.error = e] ELSE holder

\* iterative_resolve raised: `except Exception`
WalkRaised(t) ==
    /\ WalkOver(t)
    /\ Top(t).pc = "raised"
    /\ result' = StoreError(variant, result, Top(t).err)
    /\ clock' = clock + 1
    /\ tpc' = [tpc EXCEPT ![t] = "dead"]
    /\ stack' = [stack EXCEPT ![t] = <<>>]
    /\ UNCHANGED <<variant, responses, answers, start, elapsed, mpc, outcome>>

\* `if "result" not in result_holder:`
CheckSlot(t) ==
    /\ tpc[t] = "check"
    /\ tpc' = [tpc EXCEPT ![t] = IF result.result = NoResult THEN "write" ELSE "dead"]
    /\ UNCHANGED <<variant, responses, stack, answers, start, elapsed, clock, result,
                   mpc, outcome>>

\* `result_holder["result"] = (rdtype, answers, elapsed)`
Published(t) ==
    [rdtype |-> ThreadRdtype(t), answers |-> answers[t], elapsed |-> elapsed[t]]

WriteSlot(t) ==
    /\ tpc[t] = "write"
    /\ result' = [result EXCEPT !.result = Published(t)]
    /\ tpc' = [tpc EXCEPT ![t] = "dead"]
    /\ UNCHANGED <<variant, responses, stack, answers, start, elapsed, clock, mpc, outcome>>

---------------------------------------------------------------------------
\* main

NoOutcome == [kind |-> "none", result |-> NoResult, error |-> NoErr]
\* pretty_print(domain, answers, elapsed)
Printed(r) == [kind |-> "result", result |-> r, error |-> NoErr]
\* print(f"Error: {result['error']}")
PrintedError(e) == [kind |-> "error", result |-> NoResult, error |-> e]
\* print("Lookup failed")
LookupFailed == [kind |-> "failed", result |-> NoResult, error |-> NoErr]

\* `t.start()`, in the order of the list of record types
StartThread(t) ==
    /\ mpc = "start"
    /\ tpc[t] = "unstarted"
    /\ \A u \in Threads : u < t => tpc[u] # "unstarted"
    /\ tpc' = [tpc EXCEPT ![t] = "walk"]
    /\ start' = [start EXCEPT ![t] = clock]
    /\ stack' = [stack EXCEPT ![t] = <<NewWalk(Domain, ThreadRdtype(t))>>]
    /\ mpc' = IF \A u \in Threads \ {t} : tpc[u] # "unstarted" THEN "poll_result" ELSE "start"
    /\ UNCHANGED <<variant, responses, answers, elapsed, clock, result, outcome>>

\* a polling loop that never looks at the threads
AfterPollResultSpin(v) == "poll_result"

\* where main goes when `"result" in result` is false
AfterPollResult(v) == IF v = "mydig" THEN "poll_error" ELSE "poll_alive"

\* `if "result" in result:`
PollResult ==
    /\ mpc = "poll_result"
    /\ IF result.result # NoResult
       THEN outcome' = Printed(result.result) /\ mpc' = "done"
       ELSE outcome' = outcome /\ mpc' = AfterPollResult(variant)
    /\ UNCHANGED <<variant, responses, stack, tpc, answers, start, elapsed, clock, result>>

\* `if "error" in result:` (mydig.py)
PollError ==
    /\ mpc = "poll_error"
    /\ IF result.error # NoErr
       THEN outcome' = PrintedError(result.error) /\ mpc' = "done"
       ELSE outcome' = outcome /\ mpc' = "poll_alive"
    /\ UNCHANGED <<variant, responses, stack, tpc, answers, start, elapsed, clock, result>>

\* `if all(not t.is_alive() for t in threads):` ... `time.sleep(0.05)`
PollAlive ==
    /\ mpc = "poll_alive"
    /\ IF \A t \in Threads : tpc[t] = "dead"
       THEN outcome' = LookupFailed /\ mpc' = "done"
       ELSE outcome' = outcome /\ mpc' = "poll_result"
    /\ UNCHANGED <<variant, responses, stack, tpc, answers, start, elapsed, clock, result>>

MainStep == (\E t \in Threads : StartThread(t)) \/ PollResult \/ PollError \/ PollAlive

ThreadStep(t) == WalkReturned(t) \/ WalkRaised(t) \/ CheckSlot(t) \/ WriteSlot(t)

---------------------------------------------------------------------------
\* One walk: iterative_resolve(Domain, rdtype), as thread t calls it

InitCommon ==
    /\ variant \in Variants
    /\ answers = [t \in Threads |-> <<>>]
    /\ start = [t \in Threads |-> 0]
    /\ elapsed = [t \in Threads |-> 0]
    /\ clock = 0
    /\ result = [result |-> NoResult, error |-> NoErr]
    /\ outcome = NoOutcome

Init ==
    /\ InitCommon
    /\ responses \in Worlds
    /\ \E t \in Threads :
          /\ tpc = [u \in Threads |-> IF u = t THEN "walk" ELSE "unstarted"]
          /\ stack = [u \in Threads |->
                         IF u = t THEN <<NewWalk(Domain, ThreadRdtype(t))>> ELSE <<>>]
    /\ mpc = "off"

Next == \E t \in Threads : WalkStep(t)

Spec == Init /\ [][Next]_vars

\* One walk whose servers delegate without glue
InitNs ==
    /\ InitCommon
    /\ responses \in NsWorlds
    /\ \E t \in Threads :
          /\ tpc = [u \in Threads |-> IF u = t THEN "walk" ELSE "unstarted"]
          /\ stack = [u \in Threads |->
                         IF u = t THEN <<NewWalk(Domain, ThreadRdtype(t))>> ELSE <<>>]
    /\ mpc = "off"

SpecNs == InitNs /\ [][Next]_vars

\* a running walk keeps taking steps
FairSpec == Spec /\ \A t \in Threads : WF_vars(WalkStep(t))

---------------------------------------------------------------------------
\* The program: main and its two threads.  The servers of RaceResponses name
\* no nameserver, so the walks of a race make no nested call.

RaceWalkStep(t) == SendQuery(t) \/ ProbeExhausted(t) \/ Classify(t) \/ NsDone(t)

InitRace ==
    /\ InitCommon
    /\ responses = RaceResponses
    /\ tpc = [t \in Threads |-> "unstarted"]
    /\ stack = [t \in Threads |-> <<>>]
    /\ mpc = "start"

NextRace == MainStep \/ \E t \in Threads : RaceWalkStep(t) \/ ThreadStep(t)

SpecRace == InitRace /\ [][NextRace]_vars

\* the interpreter schedules main and every live thread again and again
FairRace ==
    /\ SpecRace
    /\ WF_vars(MainStep)
    /\ \A t \in Threads : WF_vars(RaceWalkStep(t) \/ ThreadStep(t))

---------------------------------------------------------------------------
\* Every walk of the program: the two walks main starts, or one walk with the
\* nested walks of extract_ns_ips, and resolve_with_timing after it.

InitWalks == InitNs \/ InitRace

NextWalks == MainStep \/ \E t \in Threads : WalkStep(t) \/ ThreadStep(t)

SpecWalks == InitWalks /\ [][NextWalks]_vars

---------------------------------------------------------------------------
\* Vocabulary of the properties

\* the section holds a record set of one of the types
HasType(section, types) == \E i \in 1..Len(section) : section[i].rdtype \in types

\* the response answers the walk's question
Matches(f) == HasType(f.resp.answer, {f.rdtype})
\* the response redirects the walk to an alias
IsAlias(f) == ~Matches(f) /\ HasType(f.resp.answer, {"CNAME"})
\* the response carries glue and neither an answer nor an alias
IsGlue(f) == /\ ~Matches(f) /\ ~IsAlias(f)
             /\ HasType(f.resp.additional, {"A", "AAAA"})

\* the walk on top of thread t's stack is at position pc
At(t, pc) == Walking(t) /\ Top(t).pc = pc

\* a walk is about to replace its ServerSet by glue or by resolved nameserver
\* addresses
Descending(t) ==
    \/ At(t, "classify") /\ IsGlue(Top(t))
    \/ /\ At(t, "ns")
       /\ Top(t).pass = "AAAA"
       /\ Top(t).nsIdx > Len(NsNames(Top(t).resp))
       /\ Top(t).ipsA \o Top(t).ips # <<>>

---------------------------------------------------------------------------
\* C1 (as stated): every walk terminates: it eventually returns a record set
\* or raises an error, whatever the servers send.
C1_Terminates == <>(\E t \in Threads : WalkOver(t))

\* C1 (amended): a walk terminates unless the servers keep delegating: in every
\* behaviour in which the walks replace a ServerSet by glue or by resolved
\* nameserver addresses only finitely often, the walk returns or raises.
C1_TerminatesUnlessDelegating ==
    (<>[](\A t \in Threads : ~Descending(t))) => <>(\E t \in Threads : WalkOver(t))

\* a walk has returned after alias redirections
C1_Witness ==
    \E t \in Threads : WalkOver(t) /\ Top(t).pc = "returned" /\ Top(t).cname_chain > 0

---------------------------------------------------------------------------
\* every server of the ServerSet was tried and failed
AllFailed(f) == f.idx > Len(f.current_servers) /\ f.tried = f.current_servers

\* C2: a walk all of whose servers failed raises NoResponse, and no walk raises
\* the TransportFailure of a single server.
C2_NoResponse ==
    \A t \in Threads : At(t, "raised") =>
        /\ Top(t).err.kind # "TransportFailure"
        /\ AllFailed(Top(t)) => Top(t).err = NoResponse

---------------------------------------------------------------------------
\* the walk of thread t ended with an error and the thread is over
Failed(t) == tpc[t] = "dead" /\ answers[t] = <<>>

\* C3: once the shared result slot holds a result, no step changes it.
C3_SingleAssignment ==
    [][result.result # NoResult => result'.result = result.result]_vars

---------------------------------------------------------------------------
\* C4: while one walk has failed and the other is still running, main has
\* reported nothing.
C4_KeepsWaiting ==
    \A t, u \in Threads :
        (t # u /\ Failed(t) /\ tpc[u] = "walk") => outcome = NoOutcome

---------------------------------------------------------------------------
\* C5: main reports a failure ("Lookup failed" or "Error: ...") only when both
\* walks have ended with an error.
C5_FailureOnlyIfBothFailed ==
    outcome.kind \in {"failed", "error"} => \A t \in Threads : Failed(t)

---------------------------------------------------------------------------
\* C6: when both walks have ended with an error, main eventually returns
\* having reported a failure, never a success.
C6_FailureReported ==
    (\A t \in Threads : Failed(t)) ~>
        (mpc = "done" /\ outcome.kind \in {"failed", "error"})

\* both walks failed and main printed "Lookup failed"
C6_Witness ==
    /\ \A t \in Threads : Failed(t)
    /\ mpc = "done"
    /\ outcome = LookupFailed

---------------------------------------------------------------------------
\* the walks thread t holds before and after a step
Kept(t) == 1..(IF Len(stack[t]) < Len(stack'[t]) THEN Len(stack[t]) ELSE Len(stack'[t]))

\* the step classifies an alias redirection in walk d of thread t
Redirects(t, d) == d = Depth(t) /\ stack[t][d].pc = "classify" /\ IsAlias(stack[t][d])

\* C7: the alias-chain counter of a walk starts at 0, increases by 1 on each
\* alias redirection and changes at no other step; the redirection raises
\* AliasChainTooLong exactly when the counter was 10 already, and AliasChainTooLong
\* is raised at no other step; a matching answer after 10 redirections is
\* returned.
C7_AliasCounter ==
  /\ \A t \in Threads : \A d \in DOMAIN stack[t] : stack[t][d].cname_chain = 0
  /\ [][\A t \in Threads :
        /\ \A d \in Kept(t) :
              LET f == stack[t][d]
                  g == stack'[t][d]
              IN  /\ g.cname_chain = f.cname_chain + (IF Redirects(t, d) THEN 1 ELSE 0)
                  /\ Redirects(t, d) =>
                        IF f.cname_chain = 10
                        THEN g.pc = "raised" /\ g.err = AliasChainTooLong
                        ELSE g.pc = "probe"
                  /\ (g.err = AliasChainTooLong /\ f.err # AliasChainTooLong) =>
                        Redirects(t, d)
                  /\ (d = Depth(t) /\ f.pc = "classify" /\ Matches(f)) =>
                        g.pc = "returned"
        /\ \A d \in DOMAIN stack'[t] \ DOMAIN stack[t] : stack'[t][d].cname_chain = 0
     ]_vars

\* a walk has returned a record set after exactly 10 redirections
C7_Witness == \E t \in Threads : At(t, "returned") /\ Top(t).cname_chain = 10

---------------------------------------------------------------------------
\* the addresses of the A and AAAA records of a section, in section order
RECURSIVE AddressesUpTo(_, _)
AddressesUpTo(section, n) ==
    IF n = 0 THEN <<>>
    ELSE AddressesUpTo(section, n - 1)
            \o (IF section[n].rdtype = "A" \/ section[n].rdtype = "AAAA"
                THEN section[n].items ELSE <<>>)

GlueAddresses(r) == AddressesUpTo(r.additional, Len(r.additional))

\* C8: a response without answer and alias that carries glue and NS record sets
\* makes the glue addresses the next ServerSet, in their order, and starts no
\* resolution of nameserver names.
C8_GluePreferred ==
    [][\A t \in Threads :
        (At(t, "classify") /\ IsGlue(Top(t)) /\ HasType(Top(t).resp.authority, {"NS"})) =>
            /\ Len(stack'[t]) = Len(stack[t])
            /\ Top(t)'.pc = "probe"
            /\ Top(t)'.current_servers = GlueAddresses(Top(t).resp)
            /\ Top(t)'.qname = Top(t).qname
     ]_vars

\* a walk probes the glue addresses of the referral RGlueNs
C8_Witness ==
    \E t \in Threads :
        /\ At(t, "probe")
        /\ Top(t).current_servers = <<"g1", "g2", "g3">>
        /\ Top(t).tried = <<>>

---------------------------------------------------------------------------
\* the servers queried so far are the first servers of the ServerSet, in order
ProbedInOrder(f) ==
    /\ f.tried = SubSeq(f.current_servers, 1, Len(f.tried))
    /\ Len(f.tried) = IF f.pc = "classify" THEN f.idx ELSE f.idx - 1

\* one step of a probe: the next server is queried, once; its response ends
\* the probe; no server is queried while the response is classified
ProbeStep(f, g) ==
    /\ (f.pc = "probe" /\ g.pc = "classify") =>
          /\ g.tried = SubSeq(f.current_servers, 1, f.idx)
          /\ g.resp \in responses
    /\ (f.pc = "probe" /\ g.pc = "probe") =>
          /\ g.tried = SubSeq(f.current_servers, 1, f.idx)
          /\ g.idx = f.idx + 1
    /\ (f.pc = "probe" /\ g.pc = "raised") => f.tried = f.current_servers
    /\ f.pc = "probe" => g.pc \in {"probe", "classify", "raised"}
    /\ f.pc = "classify" => Len(g.tried) <= Len(f.tried)

\* C9: a probe queries the servers in listed order, each at most once, and
\* stops at the first response: when the response of server k+1 is classified,
\* exactly the first k+1 servers were queried, and no further server is
\* queried before the response is classified.
C9_ProbeOrder ==
    /\ [](\A t \in Threads : At(t, "probe") \/ At(t, "classify") => ProbedInOrder(Top(t)))
    /\ [][\A t \in Threads :
            (Walking(t) /\ Len(stack'[t]) = Len(stack[t])) => ProbeStep(Top(t), Top(t)')
       ]_vars

\* the first two of three servers failed, the third responded: three attempts
C9_Witness ==
    \E t \in Threads :
        /\ At(t, "classify")
        /\ Top(t).current_servers = <<"g1", "g2", "g3">>
        /\ Top(t).tried = <<"g1", "g2", "g3">>

---------------------------------------------------------------------------
\* C10: a walk that returns returns one record set of the requested type: the
\* first such record set of the answer section of its last response.
C10_FirstMatch ==
    \A t \in Threads : At(t, "returned") =>
        LET f == Top(t) IN
        /\ Len(f.ret) = 1
        /\ f.ret[1].rdtype = f.rdtype
        /\ \E i \in 1..Len(f.resp.answer) :
              /\ f.resp.answer[i] = f.ret[1]
              /\ \A j \in 1..(i - 1) : f.resp.answer[j].rdtype # f.rdtype

\* a walk returned the first of two matching record sets
C10_Witness ==
    \E t \in Threads :
        /\ At(t, "returned")
        /\ Top(t).resp = RTwoA
        /\ Top(t).ret = <<RTwoA.answer[1]>>

---------------------------------------------------------------------------
\* the walk that called the walk on top of thread t's stack
Caller(t) == stack[t][Depth(t) - 1]

\* C11: extract_ns_ips never raises: a nested walk that raised is dropped, its
\* caller keeps the addresses collected so far and goes on with the next NS
\* name; a walk that is resolving nameserver names raises only
\* NoUsableAnswerOrDelegation, and only after both calls of extract_ns_ips
\* returned no address.
C11_NsFailuresSwallowed ==
    [][\A t \in Threads :
        /\ (Walking(t) /\ Depth(t) > 1 /\ Top(t).pc = "raised") =>
              /\ Len(stack'[t]) = Depth(t) - 1
              /\ Top(t)'.pc = "ns"
              /\ Top(t)'.ips = Caller(t).ips
              /\ Top(t)'.ipsA = Caller(t).ipsA
              /\ Top(t)'.nsIdx = Caller(t).nsIdx + 1
        /\ (At(t, "ns") /\ Len(stack'[t]) = Depth(t) /\ Top(t)'.pc # "ns") =>
              /\ Top(t).nsIdx > Len(NsNames(Top(t).resp))
              /\ Top(t).pass = "AAAA"
              /\ IF Top(t).ipsA \o Top(t).ips = <<>>
                 THEN Top(t)'.pc = "raised" /\ Top(t)'.err = NoUsable
                 ELSE Top(t)'.pc = "probe"
     ]_vars

\* the walk for the first of two NS names gave no address (it failed), and the
\* second NS name is being resolved
C11_Witness ==
    \E t \in Threads :
        /\ Walking(t) /\ Depth(t) = 2
        /\ Caller(t).pc = "ns"
        /\ NsNames(Caller(t).resp) = <<"n1", "n2">>
        /\ Caller(t).nsIdx = 2
        /\ Caller(t).ips = <<>>
        /\ Top(t).pc = "classify"

---------------------------------------------------------------------------
\* C12: a response whose answer section holds a record set of the requested
\* type and a CNAME record set, in either order, makes the walk return the
\* matching record set; the walk takes no redirection: its counter, query name
\* and ServerSet stay as they are.
C12_AnswerBeatsAlias ==
    [][\A t \in Threads :
        (At(t, "classify") /\ Matches(Top(t))
            /\ HasType(Top(t).resp.answer, {"CNAME"})) =>
            /\ Len(stack'[t]) = Depth(t)
            /\ Top(t)'.pc = "returned"
            /\ Len(Top(t)'.ret) = 1
            /\ Top(t)'.ret[1].rdtype = Top(t).rdtype
            /\ Top(t)'.cname_chain = Top(t).cname_chain
            /\ Top(t)'.qname = Top(t).qname
            /\ Top(t)'.current_servers = Top(t).current_servers
     ]_vars

\* a walk returned the A record set that follows a CNAME record set
C12_Witness ==
    \E t \in Threads :
        /\ At(t, "returned")
        /\ Top(t).resp = RCnameAns
        /\ Top(t).ret = <<RRset("A", <<"a1">>)>>
        /\ Top(t).qname = Domain
        /\ Top(t).cname_chain = 0

---------------------------------------------------------------------------
\* the targets of the CNAME records of a section
CnameTargets(section) ==
    {section[i].items[j] : <<i, j>> \in
        {p \in (1..Len(section)) \X (1..2) :
            section[p[1]].rdtype = "CNAME" /\ p[2] <= Len(section[p[1]].items)}}

\* C13: the ServerSet of a walk is the Root Hints Table when the walk starts
\* and right after every alias redirection, whatever ServerSet the walk had
\* reached for the old name; the walk then probes the root servers from the
\* first one for the new name.
C13_RootAfterRedirection ==
  /\ \A t \in Threads : \A d \in DOMAIN stack[t] :
        stack[t][d].current_servers = <<"r1", "r2">>
  /\ [][\A t \in Threads :
        /\ \A d \in DOMAIN stack'[t] \ DOMAIN stack[t] :
              /\ stack'[t][d].current_servers = <<"r1", "r2">>
              /\ stack'[t][d].pc = "probe" /\ stack'[t][d].idx = 1
        /\ (Walking(t) /\ Redirects(t, Depth(t)) /\ Top(t).cname_chain < 10) =>
              /\ Len(stack'[t]) = Depth(t)
              /\ Top(t)'.pc = "probe"
              /\ Top(t)'.current_servers = <<"r1", "r2">>
              /\ Top(t)'.idx = 1 /\ Top(t)'.tried = <<>>
              /\ Top(t)'.qname \in CnameTargets(Top(t).resp.answer)
     ]_vars

\* a walk that has descended to the glue servers of a referral is redirected
\* to an alias
C13_Witness ==
    \E t \in Threads :
        /\ At(t, "classify")
        /\ IsAlias(Top(t))
        /\ Top(t).current_servers = <<"g1", "g2", "g3">>
        /\ Top(t).cname_chain < 10

---------------------------------------------------------------------------
\* the response gives the walk nothing but, possibly, nameserver names
OnlyDelegation(f) ==
    /\ f.resp \in responses
    /\ ~HasType(f.resp.answer, {f.rdtype, "CNAME"})
    /\ ~HasType(f.resp.additional, {"A", "AAAA"})

\* both calls of extract_ns_ips of the walk have returned
NsResolved(f) ==
    f.pc = "ns" /\ f.pass = "AAAA" /\ f.nsIdx > Len(NsNames(f.resp))

\* C14: a walk raises NoUsableAnswerOrDelegation exactly when a server
\* responded without record set of the requested type, CNAME or glue address
\* and the resolution of the NS names of the response gave no address; when it
\* gave addresses, they become the ServerSet and the walk goes on.
C14_NoUsable ==
  /\ [](\A t \in Threads : At(t, "ns") => OnlyDelegation(Top(t)))
  /\ [][\A t \in Threads :
        /\ \A d \in Kept(t) :
              (stack'[t][d].err = NoUsable /\ stack[t][d].err # NoUsable) =>
                  /\ d = Depth(t)
                  /\ NsResolved(stack[t][d])
                  /\ stack[t][d].ipsA \o stack[t][d].ips = <<>>
        /\ (Walking(t) /\ NsResolved(Top(t))) =>
              /\ Len(stack'[t]) = Depth(t)
              /\ IF Top(t).ipsA \o Top(t).ips = <<>>
                 THEN Top(t)'.pc = "raised" /\ Top(t)'.err = NoUsable
                 ELSE /\ Top(t)'.pc = "probe"
                      /\ Top(t)'.current_servers = Top(t).ipsA \o Top(t).ips
                      /\ Top(t)'.qname = Top(t).qname
        /\ (At(t, "classify") /\ OnlyDelegation(Top(t))) =>
              Len(stack'[t]) = Depth(t) /\ Top(t)'.pc = "ns"
     ]_vars

\* a walk raised NoUsableAnswerOrDelegation for a referral to two nameservers
\* none of which could be resolved
C14_Witness ==
    \E t \in Threads :
        /\ At(t, "raised")
        /\ Depth(t) = 1
        /\ Top(t).err = NoUsable
        /\ Top(t).resp = RTwoNs

---------------------------------------------------------------------------
\* the ServerSet, query name and alias-chain counter of a walk
Owned(f) == <<f.current_servers, f.qname, f.cname_chain>>

\* C15: a step changes the ServerSet, query name and counter of at most one
\* walk, the running walk of one thread: the walks of the other thread and the
\* walks waiting for a nested walk keep theirs, also when the nested walk
\* starts or ends; a fresh walk starts with counter 0 and the root servers,
\* which are the same for every walk.
C15_WalksOwnTheirState ==
    [][\A t \in Threads :
        /\ \A u \in Threads \ {t} : stack'[t] # stack[t] => stack'[u] = stack[u]
        /\ \A d \in Kept(t) :
              (d < Depth(t) \/ Len(stack'[t]) > Depth(t)) =>
                  Owned(stack'[t][d]) = Owned(stack[t][d])
        /\ \A d \in DOMAIN stack'[t] \ DOMAIN stack[t] :
              /\ d = Depth(t) + 1
              /\ stack'[t][d].cname_chain = 0
              /\ stack'[t][d].current_servers = <<"r1", "r2">>
     ]_vars

\* a nested walk has taken two redirections while its caller, redirected
\* once, waits for it
C15_Witness ==
    \E t \in Threads :
        /\ Walking(t) /\ Depth(t) = 2
        /\ Caller(t).cname_chain = 1
        /\ Top(t).cname_chain = 2

---------------------------------------------------------------------------
\* the walk of thread t is about to resolve an NS name
NsPending(t) ==
    /\ Walking(t)
    /\ Top(t).pc = "ns"
    /\ Top(t).nsIdx <= Len(NsNames(Top(t).resp))

PendingName(t) == NsNames(Top(t).resp)[Top(t).nsIdx]

---------------------------------------------------------------------------
\* C17: the ServerSet of every walk is non-empty, in particular at every
\* server probe, and a step replaces it only by the root servers, by the
\* non-empty glue list of the response or by the non-empty list of resolved
\* nameserver addresses.
C17_ServerSetNonEmpty ==
    /\ [](\A t \in Threads : \A d \in DOMAIN stack[t] :
            stack[t][d].current_servers # <<>>)
    /\ [][\A t \in Threads : \A d \in Kept(t) :
            LET f == stack[t][d]
                g == stack'[t][d]
            IN  g.current_servers # f.current_servers =>
                    /\ g.pc = "probe"
                    /\ g.current_servers # <<>>
                    /\ \/ g.current_servers = <<"r1", "r2">>
                       \/ f.resp # NoResp /\ g.current_servers = GlueAddresses(f.resp)
                       \/ f.pc = "ns" /\ g.current_servers = f.ipsA \o f.ips
       ]_vars

\* a walk probes the one address the nameserver fallback found, after the
\* A pass found none
C17_Witness ==
    \E t \in Threads :
        /\ At(t, "probe")
        /\ Top(t).current_servers = <<"a2">>
        /\ Top(t).tried = <<>>

---------------------------------------------------------------------------
\* the positions of the CNAME record sets of a section
CnameSets(section) == {i \in 1..Len(section) : section[i].rdtype = "CNAME"}

\* the first record of the last CNAME record set of a section
LastCnameTarget(section) ==
    LET last == CHOOSE i \in CnameSets(section) : \A j \in CnameSets(section) : j <= i
    IN  section[last].items[1]

\* C18: an answer section without a record set of the requested type and with
\* several CNAME record sets adds 1 to the alias-chain counter, once for the
\* response, and redirects the walk to the target of the first record of the
\* last CNAME record set.
C18_LastCnameOnce ==
    [][\A t \in Threads :
        (At(t, "classify") /\ IsAlias(Top(t))
            /\ Cardinality(CnameSets(Top(t).resp.answer)) > 1) =>
            /\ Len(stack'[t]) = Depth(t)
            /\ Top(t)'.cname_chain = Top(t).cname_chain + 1
            /\ Top(t).cname_chain < 10 =>
                  /\ Top(t)'.pc = "probe"
                  /\ Top(t)'.qname = LastCnameTarget(Top(t).resp.answer)
     ]_vars

\* a walk asks for the alias "c3" after one response with two CNAME record
\* sets, (c1, c2) and (c3, c1)
C18_Witness ==
    \E t \in Threads :
        /\ At(t, "probe")
        /\ RTwoCname \in responses
        /\ Top(t).qname = "c3"
        /\ Top(t).cname_chain = 1

---------------------------------------------------------------------------
\* the addresses a finished nested walk hands to extract_ns_ips
Found(g) == IF g.pc = "returned" THEN g.ret[1].items ELSE <<>>

\* C19: the nameserver fallback of a walk, whatever its own record type, goes
\* through the NS names of the authority section in order, first all of them
\* for type A and then all of them for type AAAA, each by a nested walk for that
\* name and that type; it collects the addresses in that order, and the new
\* ServerSet is the addresses of the A pass followed by those of the AAAA pass.
C19_BothAddressTypes ==
    [][\A t \in Threads : Walking(t) /\ stack'[t] # stack[t] =>
        LET f == Top(t) IN
        \* the fallback starts with the A pass at the first NS name
        /\ (f.pc = "classify" /\ Len(stack'[t]) = Depth(t) /\ Top(t)'.pc = "ns") =>
              /\ Top(t)'.pass = "A" /\ Top(t)'.nsIdx = 1
              /\ Top(t)'.ips = <<>> /\ Top(t)'.ipsA = <<>>
        \* the next NS name is resolved for the type of the pass
        /\ (NsPending(t) /\ Depth(t) < MaxDepth) =>
              /\ Len(stack'[t]) = Depth(t) + 1
              /\ Top(t)'.qname = PendingName(t)
              /\ Top(t)'.rdtype = f.pass
              /\ stack'[t][Depth(t)] = f
        \* its addresses are appended and the next NS name is due
        /\ (Depth(t) > 1 /\ f.pc \in {"returned", "raised"}) =>
              /\ Len(stack'[t]) = Depth(t) - 1
              /\ Top(t)'.ips = Caller(t).ips \o Found(f)
              /\ Top(t)'.ipsA = Caller(t).ipsA
              /\ Top(t)'.pass = Caller(t).pass
              /\ Top(t)'.nsIdx = Caller(t).nsIdx + 1
              /\ f.rdtype = Caller(t).pass
              /\ f.pc = "returned" => f.ret[1].rdtype = Caller(t).pass
        \* after the last NS name of the A pass the AAAA pass starts
        /\ (f.pc = "ns" /\ ~NsPending(t) /\ f.pass = "A") =>
              /\ Top(t)'.pc = "ns" /\ Top(t)'.pass = "AAAA" /\ Top(t)'.nsIdx = 1
              /\ Top(t)'.ipsA = f.ips /\ Top(t)'.ips = <<>>
        \* after the last NS name of the AAAA pass the addresses are the ServerSet
        /\ (f.pc = "ns" /\ ~NsPending(t) /\ f.pass = "AAAA" /\ f.ipsA \o f.ips # <<>>) =>
              /\ Top(t)'.pc = "probe"
              /\ Top(t)'.current_servers = f.ipsA \o f.ips
              /\ Top(t)'.qname = f.qname
     ]_vars

\* a walk for type AAAA probes the A addresses of both nameservers followed by
\* their AAAA addresses
C19_Witness ==
    \E t \in Threads :
        /\ At(t, "probe")
        /\ Depth(t) = 1
        /\ Top(t).rdtype = "AAAA"
        /\ Top(t).current_servers = <<"a1", "a1", "a2", "a2">>

==========================================================================
